---- MODULE Spec2Model ----
(***************************************************************************)
(* A model of the swagger generator of ronaksoft/ronycontrib               *)
(* (swagger/swagger.go): NewSwagger, WriteTo, WriteToFile, addOperation,   *)
(* setInput, setParameter, addDefinition and replacePath.                  *)
(*                                                                         *)
(* A Go string the program splits or compares (a path, a tag value, a     *)
(* parameter name) is a sequence of atoms: the delimiter characters "/",   *)
(* ":", ",", " ", "{", "}" are atoms of their own, every other atom is a   *)
(* (non-empty) run of characters holding no delimiter.  The literals the   *)
(* program only formats ("#/definitions/", "Items: ") are atoms as they    *)
(* stand.  A field's tag is the value of Tag.Get(sg.tagName) for the       *)
(* generator configured WithTag("json"); <<>> is the empty string of a     *)
(* field without that tag.  A nil map and an empty map are the function    *)
(* with the empty domain.  A reflect.Type is                               *)
(* a record [wraps, kind, id]: wraps is the chain of pointer and slice     *)
(* constructors, outermost first; kind is the reflect.Kind (by its         *)
(* String()) below them; id names the struct type (package.Name) when that *)
(* kind is struct.  rtypes maps a struct type's id to its name and fields. *)
(***************************************************************************)
EXTENDS Integers, Sequences, FiniteSets, TLC

VARIABLES
    rtypes,       \* the struct types of the program: id -> [name, fields]
    swag,         \* sg.s, the *spec.Swagger the generator holds
    ops,          \* the heap of *spec.Operation values, by allocation order
    pc,           \* position of the running call
    call,         \* the running (or last) call: [fn, services]
    dest,         \* content of the destination (the file, or the writer)
    destBefore,   \* content of the destination when the call began
    swaggerJSON,  \* the encoded document of the running call
    ret,          \* what the last call returned
    hist,         \* per encoded document: [services, doc]
    lastReg,      \* argument of the last direct addDefinition call
    stack,        \* the running addDefinition calls: [rType, i, def], last on top
    todo          \* the types addOperation has still to pass to addDefinition

vars == <<rtypes, swag, ops, pc, call, dest, destBefore, swaggerJSON, ret, hist, lastReg,
          stack, todo>>

(***************************************************************************)
(* Bounds of the model.                                                    *)
(***************************************************************************)
MaxPathLen == 5
MaxWraps == 2
MaxFields == 2
MaxSelectors == 2
MaxErrors == 2
MaxCalls == 2
MaxDepth == 5

(***************************************************************************)
(* Strings.                                                                *)
(***************************************************************************)
Put(f, k, v) == [x \in (DOMAIN f) \cup {k} |-> IF x = k THEN v ELSE f[x]]

SeqsUpTo(S, n) == UNION {[1..k -> S] : k \in 0..n}

HasPrefix(s, c) == Len(s) > 0 /\ s[1] = c

RECURSIVE Split(_, _)
Split(s, sep) ==
    IF \A i \in 1..Len(s) : s[i] # sep
    THEN <<s>>
    ELSE LET i == CHOOSE i \in 1..Len(s) :
                      s[i] = sep /\ \A j \in 1..(i - 1) : s[j] # sep
         IN  <<SubSeq(s, 1, i - 1)>> \o Split(SubSeq(s, i + 1, Len(s)), sep)

RECURSIVE Join(_, _)
Join(parts, sep) ==
    IF Len(parts) = 0 THEN <<>>
    ELSE IF Len(parts) = 1 THEN parts[1]
    ELSE parts[1] \o sep \o Join(Tail(parts), sep)

RECURSIVE TrimLeft(_)
TrimLeft(s) == IF HasPrefix(s, " ") THEN TrimLeft(Tail(s)) ELSE s

RECURSIVE TrimRight(_)
TrimRight(s) ==
    IF Len(s) > 0 /\ s[Len(s)] = " " THEN TrimRight(SubSeq(s, 1, Len(s) - 1)) ELSE s

TrimSpace(s) == TrimRight(TrimLeft(s))

ToUpper(m) ==
    CASE m = "get" -> "GET"
      [] m = "post" -> "POST"
      [] m = "put" -> "PUT"
      [] m = "patch" -> "PATCH"
      [] m = "delete" -> "DELETE"
      [] m = "head" -> "HEAD"
      [] OTHER -> m

(***************************************************************************)
(* replacePath.                                                            *)
(***************************************************************************)
pathSegmentKeepColon(p) ==
    IF HasPrefix(p, ":") THEN <<"{">> \o p \o <<"}">> ELSE p

pathSegment(p) ==
    IF HasPrefix(p, ":") THEN <<"{">> \o SubSeq(p, 2, Len(p)) \o <<"}">> ELSE p

RECURSIVE replacePathLoop(_, _, _)
replacePathLoop(parts, idx, sb) ==
    IF idx > Len(parts) THEN sb
    ELSE replacePathLoop(parts, idx + 1,
             (IF idx > 1 THEN sb \o <<"/">> ELSE sb) \o pathSegment(parts[idx]))

replacePath(path) == replacePathLoop(Split(path, "/"), 1, <<>>)

(***************************************************************************)
(* reflect.Type.                                                           *)
(***************************************************************************)
T(w, k, id) == [wraps |-> w, kind |-> k, id |-> id]

Kind(t) == IF t.wraps # <<>> THEN Head(t.wraps) ELSE t.kind

Elem(t) == [t EXCEPT !.wraps = Tail(@)]

Name(t) == IF t.wraps = <<>> /\ t.kind = "struct" THEN rtypes[t.id].name ELSE ""

NumField(t) == Len(rtypes[t.id].fields)

Field(t, i) == rtypes[t.id].fields[i]

Indirect(t) == IF Kind(t) = "ptr" THEN Elem(t) ELSE t

Struct(id) == T(<<>>, "struct", id)

Basic(k) == T(<<>>, k, "")

Ptr(t) == [t EXCEPT !.wraps = <<"ptr">> \o @]

Slice(t) == [t EXCEPT !.wraps = <<"slice">> \o @]

F(tag, type) == [tag |-> tag, type |-> type]

(***************************************************************************)
(* spec.Schema values.                                                     *)
(***************************************************************************)
Schema(tpe, format) ==
    [type |-> tpe, format |-> format, ref |-> <<>>, items |-> <<>>, properties |-> <<>>]

StringProperty == Schema("string", "")
Int8Property == Schema("integer", "int8")
Int32Property == Schema("integer", "int32")
Int64Property == Schema("integer", "int64")
Float32Property == Schema("number", "float")
Float64Property == Schema("number", "double")
BoolProperty == Schema("boolean", "")
ObjectSchema == Schema("object", "")

ArrayProperty(item) == [Schema("array", "") EXCEPT !.items = <<item>>]

DefinitionRef(name) == <<"#/definitions/", name>>

RefProperty(ref) == [Schema("", "") EXCEPT !.ref = ref]

SetProperty(def, name, schema) == [def EXCEPT !.properties = Put(@, name, schema)]

(***************************************************************************)
(* addDefinition.                                                          *)
(***************************************************************************)
propertyName(fName) ==
    LET fNameParts == Split(fName, ",")
    IN  IF Len(fNameParts) > 1 THEN TrimSpace(fNameParts[1]) ELSE fName

wrapFunc(kind, schema) ==
    IF kind = "slice" THEN ArrayProperty(schema) ELSE schema

unwrapField(fType) ==
    IF Kind(fType) \in {"ptr", "slice"} THEN Elem(fType) ELSE fType

RECURSIVE switchType(_)
switchType(fType) ==
    IF Kind(fType) = "ptr" THEN switchType(Elem(fType)) ELSE fType

kindPropertyInt32As64(fType) ==
    LET k == Kind(fType)
    IN  CASE k = "string" -> StringProperty
          [] k \in {"int8", "uint8"} -> ArrayProperty(Int8Property)
          [] k \in {"int32", "uint32", "int", "uint", "int64", "uint64"} -> Int64Property
          [] k = "float32" -> Float32Property
          [] k = "float64" -> Float64Property
          [] k = "struct" -> RefProperty(DefinitionRef(Name(fType)))
          [] k = "bool" -> BoolProperty
          [] k = "interface" -> ObjectSchema
          [] OTHER -> StringProperty

kindProperty(fType) ==
    LET k == Kind(fType)
    IN  CASE k = "string" -> StringProperty
          [] k \in {"int8", "uint8"} -> ArrayProperty(Int8Property)
          [] k \in {"int32", "uint32"} -> Int32Property
          [] k \in {"int", "uint", "int64", "uint64"} -> Int64Property
          [] k = "float32" -> Float32Property
          [] k = "float64" -> Float64Property
          [] k = "struct" -> RefProperty(DefinitionRef(Name(fType)))
          [] k = "bool" -> BoolProperty
          [] k = "interface" -> ObjectSchema
          [] OTHER -> StringProperty

storeDefinitionIfAbsent(defs, name, def) ==
    IF name \in DOMAIN defs THEN defs ELSE Put(defs, name, def)

storeDefinition(defs, name, def) == Put(defs, name, def)

RECURSIVE addDefinition(_, _)

nestedDefinitionSkipped(defs, fType) == defs

nestedDefinition(defs, fType) ==
    IF Kind(fType) = "struct" THEN addDefinition(defs, fType) ELSE defs

RECURSIVE fieldLoop(_, _, _, _)
fieldLoop(defs, rType, i, def) ==
    IF i > NumField(rType) THEN [defs |-> defs, def |-> def]
    ELSE LET f == Field(rType, i)
             fType == switchType(unwrapField(f.type))
         IN  IF f.tag = <<>>
             THEN fieldLoop(defs, rType, i + 1, def)
             ELSE fieldLoop(nestedDefinition(defs, fType), rType, i + 1,
                            SetProperty(def, propertyName(f.tag),
                                        wrapFunc(Kind(f.type), kindProperty(fType))))

addDefinition(defs, rType0) ==
    LET rType == IF Kind(rType0) = "ptr" THEN Elem(rType0) ELSE rType0
        r == fieldLoop(defs, rType, 1, ObjectSchema)
    IN  storeDefinition(r.defs, Name(rType), r.def)

(***************************************************************************)
(* spec.Parameter and spec.Operation values; setParameter, setInput.       *)
(***************************************************************************)
Param(name, in, required) ==
    [name |-> name, in |-> in, required |-> required, allowEmptyValue |-> FALSE,
     type |-> "", format |-> "", schema |-> <<>>]

PathParam(name) == Param(name, "path", TRUE)

QueryParam(name) == Param(name, "query", FALSE)

BodyParam(name, schema) == [Param(name, "body", FALSE) EXCEPT !.schema = schema.ref]

AsRequired(p) == [p EXCEPT !.required = TRUE]

NoEmptyValues(p) == [p EXCEPT !.allowEmptyValue = FALSE]

Typed(p, tpe, format) == [p EXCEPT !.type = tpe, !.format = format]

NilParam == Param(<<>>, "nil", FALSE)

setParameter(p, t) ==
    LET kind == Kind(t)
    IN  CASE kind = "slice" ->
                LET ek == Kind(Elem(t))
                IN  CASE ek = "string" -> Typed(p, "string", kind)
                      [] ek \in {"float64", "float32"} -> Typed(p, "number", kind)
                      [] ek \in {"int8", "uint8"} -> Typed(p, "integer", "int8")
                      [] ek \in {"int32", "uint32"} -> Typed(p, "integer", "int32")
                      [] ek \in {"int", "int64", "uint", "uint64"} -> Typed(p, "integer", "int64")
                      [] OTHER -> NilParam
          [] kind = "string" -> Typed(p, "string", kind)
          [] kind \in {"float64", "float32"} -> Typed(p, "number", kind)
          [] kind \in {"int8", "uint8"} -> Typed(p, "integer", "int8")
          [] kind \in {"int32", "uint32"} -> Typed(p, "integer", "int32")
          [] kind \in {"int", "int64", "uint", "uint64"} -> Typed(p, "integer", "int64")
          [] OTHER -> NilParam

NewOperation(opID) ==
    [id |-> opID, tags |-> <<>>, produces |-> <<>>, consumes |-> <<>>,
     parameters |-> <<>>, responses |-> <<>>]

Response(ref, description) == [schema |-> ref, description |-> description]

RespondsWith(op, code, response) ==
    [op EXCEPT !.responses = Put(@, code, response)]

AddParam(op, param) ==
    IF param.in = "nil" THEN op
    ELSE LET same == {i \in 1..Len(op.parameters) :
                         /\ op.parameters[i].name = param.name
                         /\ op.parameters[i].in = param.in}
         IN  IF same # {}
             THEN LET i == CHOOSE i \in same : \A j \in same : i <= j
                  IN  [op EXCEPT !.parameters[i] = param]
             ELSE [op EXCEPT !.parameters = Append(@, param)]

pathParamsOf(path) ==
    LET parts == Split(path, "/")
    IN  {SubSeq(parts[i], 2, Len(parts[i])) : i \in {j \in 1..Len(parts) : HasPrefix(parts[j], ":")}}

RECURSIVE setInputLoop(_, _, _, _)
setInputLoop(op, pathParams, inType, i) ==
    IF i > NumField(inType) THEN op
    ELSE LET f == Field(inType, i)
             fName == f.tag
             found == fName \in pathParams
             p == IF found
                  THEN setParameter(NoEmptyValues(AsRequired(PathParam(fName))), f.type)
                  ELSE setParameter(NoEmptyValues(AsRequired(QueryParam(fName))), f.type)
         IN  IF fName = <<>>
             THEN setInputLoop(op, pathParams, inType, i + 1)
             ELSE setInputLoop(AddParam(op, p), pathParams, inType, i + 1)

setInput(op, path, inType0) ==
    LET inType == IF Kind(inType0) = "ptr" THEN Elem(inType0) ELSE inType0
    IN  setInputLoop(op, pathParamsOf(path), inType, 1)

(***************************************************************************)
(* addOperation, addTag and the loop of WriteTo.  An operation is a        *)
(* pointer: a path item holds the index of the operation in ops, and the   *)
(* one operation of a contract is stored under every selector's method.    *)
(***************************************************************************)
RECURSIVE possibleErrorsLoop(_, _, _)
possibleErrorsLoop(c, i, st) ==
    IF i > Len(c.possibleErrors) THEN st
    ELSE LET pe == c.possibleErrors[i]
             errType == Indirect(pe.message)
             items == (IF pe.code \in DOMAIN st.possibleErrors
                       THEN st.possibleErrors[pe.code] ELSE <<>>) \o <<pe.item>>
         IN  possibleErrorsLoop(c, i + 1,
                 [defs |-> addDefinition(st.defs, errType),
                  possibleErrors |-> Put(st.possibleErrors, pe.code, items),
                  op |-> RespondsWith(st.op, pe.code,
                             Response(DefinitionRef(Name(errType)),
                                      <<"Items: ">> \o Join(items, <<",", " ">>)))])

withBodyParam(op, method, inType) ==
    IF method \in {"POST", "PUT", "PATCH"}
    THEN AddParam(op, BodyParam(<<Name(inType)>>, RefProperty(DefinitionRef(Name(inType)))))
    ELSE op

methodField(method) ==
    CASE method = "GET" -> "get"
      [] method = "DELETE" -> "delete"
      [] method = "POST" -> "post"
      [] method = "PUT" -> "put"
      [] method = "PATCH" -> "patch"
      [] OTHER -> ""

RECURSIVE selectorsLoop(_, _, _, _, _, _)
selectorsLoop(c, inType, outType, opRef, i, st) ==
    IF i > Len(c.selectors) THEN st
    ELSE LET sel == c.selectors[i]
             restPath == replacePath(sel.path)
             method == ToUpper(sel.method)
             pathItem == IF restPath \in DOMAIN st.paths THEN st.paths[restPath] ELSE <<>>
         IN  IF ~sel.rest
             THEN selectorsLoop(c, inType, outType, opRef, i + 1, st)
             ELSE selectorsLoop(c, inType, outType, opRef, i + 1,
                      [defs |-> addDefinition(addDefinition(st.defs, inType), outType),
                       op |-> withBodyParam(setInput(st.op, sel.path, inType), method, inType),
                       paths |-> Put(st.paths, restPath,
                                     IF methodField(method) = "" THEN pathItem
                                     ELSE Put(pathItem, methodField(method), opRef))])

addOperation(g, serviceName, c) ==
    LET inType == Indirect(c.input)
        outType == Indirect(c.output)
        op0 == [RespondsWith(NewOperation(c.name), 200,
                             Response(DefinitionRef(Name(outType)), <<>>))
                EXCEPT !.tags = <<serviceName>>,
                       !.produces = <<"application/json">>,
                       !.consumes = <<"application/json">>]
        e == possibleErrorsLoop(c, 1,
                 [defs |-> g.swag.definitions, possibleErrors |-> <<>>, op |-> op0])
        r == selectorsLoop(c, inType, outType, Len(g.ops) + 1, 1,
                 [defs |-> e.defs, op |-> e.op, paths |-> g.swag.paths])
    IN  [swag |-> [g.swag EXCEPT !.paths = r.paths, !.definitions = r.defs],
         ops |-> Append(g.ops, r.op)]

addTag(sw, s) == [sw EXCEPT !.tags = Append(@, s.name)]

RECURSIVE contractsLoop(_, _, _)
contractsLoop(g, s, i) ==
    IF i > Len(s.contracts) THEN g
    ELSE contractsLoop(addOperation(g, s.name, s.contracts[i]), s, i + 1)

RECURSIVE servicesLoop(_, _, _)
servicesLoop(g, services, i) ==
    IF i > Len(services) THEN g
    ELSE servicesLoop(
             contractsLoop([g EXCEPT !.swag = addTag(g.swag, services[i])], services[i], 1),
             services, i + 1)

NewSwagger(title, ver, desc) ==
    [info |-> [description |-> desc, title |-> title, version |-> ver],
     schemes |-> <<"http", "https">>,
     swagger |-> "2.0",
     tags |-> <<>>,
     paths |-> <<>>,
     definitions |-> <<>>]

MarshalJSON(sw, heap) ==
    [sw EXCEPT !.paths = [p \in DOMAIN sw.paths |->
                             [m \in DOMAIN sw.paths[p] |-> heap[sw.paths[p][m]]]]]

(***************************************************************************)
(* The struct types of swagger_test.go, and four more: optReq (a field of  *)
(* a kind setParameter does not know, a tag with a modifier, collections   *)
(* of collections), a.Item and b.Item (two types of one name, the second a *)
(* field of the first) and probe (its fields are chosen by InitDef).       *)
(***************************************************************************)
sampleReq == Struct("swagger_test.sampleReq")
subRes == Struct("swagger_test.subRes")
sampleRes == Struct("swagger_test.sampleRes")
sampleError == Struct("swagger_test.sampleError")
anotherRes == Struct("swagger_test.anotherRes")
optReq == Struct("swagger_test.optReq")
itemA == Struct("a.Item")
itemB == Struct("b.Item")
probe == Struct("probe")

StructIds ==
    {"swagger_test.sampleReq", "swagger_test.subRes", "swagger_test.sampleRes",
     "swagger_test.sampleError", "swagger_test.anotherRes", "swagger_test.optReq",
     "a.Item", "b.Item", "probe"}

Fixture ==
    [id \in StructIds |->
        CASE id = "swagger_test.sampleReq" ->
                [name |-> "sampleReq",
                 fields |-> <<F(<<"x">>, Basic("string")), F(<<"y">>, Basic("string")),
                              F(<<"z">>, Basic("int64")), F(<<"w">>, Slice(Basic("string")))>>]
          [] id = "swagger_test.subRes" ->
                [name |-> "subRes",
                 fields |-> <<F(<<"some">>, Basic("string")),
                              F(<<"another">>, Slice(Basic("uint8")))>>]
          [] id = "swagger_test.sampleRes" ->
                [name |-> "sampleRes",
                 fields |-> <<F(<<"out1">>, Basic("int")), F(<<"out2">>, Basic("string")),
                              F(<<"sub">>, subRes), F(<<"subs">>, Slice(subRes))>>]
          [] id = "swagger_test.sampleError" ->
                [name |-> "sampleError",
                 fields |-> <<F(<<"code">>, Basic("int")),
                              F(<<"description">>, Basic("string"))>>]
          [] id = "swagger_test.anotherRes" ->
                [name |-> "anotherRes",
                 fields |-> <<F(<<>>, subRes), F(<<"out1">>, Basic("int")),
                              F(<<"out2">>, Basic("string"))>>]
          [] id = "swagger_test.optReq" ->
                [name |-> "optReq",
                 fields |-> <<F(<<"x">>, Basic("bool")),
                              F(<<"y", ",", "omitempty">>, Basic("string")),
                              F(<<"z">>, Slice(Basic("float64"))),
                              F(<<"grid">>, Slice(Slice(sampleError))),
                              F(<<"list">>, Ptr(Slice(itemB)))>>]
          [] id = "a.Item" ->
                [name |-> "Item",
                 fields |-> <<F(<<"id">>, Basic("string")), F(<<"inner">>, itemB)>>]
          [] id = "b.Item" ->
                [name |-> "Item",
                 fields |-> <<F(<<"code">>, Basic("int32"))>>]
          [] OTHER -> [name |-> "probe", fields |-> <<>>]]

(***************************************************************************)
(* Inputs: paths, selectors, possible errors, contracts and services.      *)
(***************************************************************************)
PathAtoms == {"/", ":", "x", "b"}

PathStrings == SeqsUpTo(PathAtoms, MaxPathLen)

PathXY == <<"/", "some", "/", ":", "x", "/", ":", "y">>

PathX == <<"/", "some", "/", ":", "x">>

Selector(rest, method, path) == [rest |-> rest, method |-> method, path |-> path]

Methods == {"GET", "DELETE", "POST", "PUT", "PATCH", "post", "HEAD"}

Selectors ==
    {Selector(TRUE, m, p) : m \in Methods, p \in {PathXY, PathX}}
        \cup {Selector(FALSE, "", <<>>)}

PossibleError(code, item, message) == [code |-> code, item |-> item, message |-> message]

PossibleErrors ==
    {PossibleError(code, item, Ptr(sampleError)) :
        code \in {200, 404, 504}, item \in {<<"ITEM1">>, <<"SERVER">>}}
        \cup {PossibleError(404, <<"ITEM2">>, Ptr(itemB))}

Contract(name, input, output, selectors, possibleErrors) ==
    [name |-> name, input |-> input, output |-> output,
     selectors |-> selectors, possibleErrors |-> possibleErrors]

Service(name, contracts) == [name |-> name, contracts |-> contracts]

\* The contracts of SpecOp: every list of selectors with at most one possible
\* error, and every list of possible errors with at most one selector.
OpContracts ==
    {Contract("op", Ptr(i), Ptr(o), sels, errs) :
        i \in {sampleReq, optReq}, o \in {sampleRes, anotherRes},
        sels \in SeqsUpTo(Selectors, MaxSelectors),
        errs \in {<<>>, <<PossibleError(404, <<"ITEM1">>, Ptr(sampleError))>>}}
    \cup
    {Contract("op", Ptr(sampleReq), Ptr(o), sels, errs) :
        o \in {sampleRes, itemA},
        sels \in {<<>>, <<Selector(FALSE, "", <<>>)>>, <<Selector(TRUE, "GET", PathXY)>>},
        errs \in SeqsUpTo(PossibleErrors, MaxErrors)}

\* testService.Desc of swagger_test.go.
testService ==
    Service("testService",
        <<Contract("", Ptr(sampleReq), Ptr(sampleRes),
                   <<Selector(TRUE, "GET", PathXY)>>,
                   <<PossibleError(404, <<"ITEM1">>, Ptr(sampleError)),
                     PossibleError(504, <<"SERVER">>, Ptr(sampleError))>>),
          Contract("", Ptr(sampleReq), Ptr(anotherRes),
                   <<Selector(TRUE, "POST", PathXY)>>, <<>>)>>)

itemService ==
    Service("itemService",
        <<Contract("getItem", Ptr(optReq), Ptr(itemA),
                   <<Selector(TRUE, "GET", PathX)>>, <<>>)>>)

ServiceLists == {<<>>, <<testService>>, <<itemService>>, <<testService, itemService>>}

pathService(path) ==
    Service("testService",
        <<Contract("", Ptr(sampleReq), Ptr(sampleRes),
                   <<Selector(TRUE, "GET", path)>>, <<>>)>>)

(***************************************************************************)
(* The state after NewSwagger("TestTitle", "v0.0.1", "").WithTag("json").  *)
(***************************************************************************)
NoCall == [fn |-> "", services |-> <<>>, n |-> 0]

OldContent == [bytes |-> "old content"]

Init ==
    /\ rtypes = Fixture
    /\ swag = NewSwagger("TestTitle", "v0.0.1", "")
    /\ ops = <<>>
    /\ pc = "idle"
    /\ call = NoCall
    /\ dest \in {<<>>, <<OldContent>>}
    /\ destBefore = dest
    /\ swaggerJSON = <<>>
    /\ ret = "none"
    /\ hist = <<>>
    /\ lastReg = <<>>
    /\ stack = <<>>
    /\ todo = <<>>

(***************************************************************************)
(* WriteToFile and WriteTo, step by step.                                  *)
(***************************************************************************)
Begin(fn, services) ==
    /\ call' = [fn |-> fn, services |-> services, n |-> call.n + 1]
    /\ destBefore' = dest
    /\ swaggerJSON' = <<>>
    /\ UNCHANGED <<rtypes, swag, ops, hist, lastReg, stack, todo>>

\* os.Create, and the call of WriteTo on the file it returns.
WriteToFile(services) ==
    /\ pc \in {"idle", "returned"}
    /\ call.n < MaxCalls
    /\ Begin("WriteToFile", services)
    /\ \/ pc' = "returned" /\ ret' = "create error" /\ dest' = dest
       \/ pc' = "assemble" /\ ret' = "none" /\ dest' = <<>>

WriteTo(services) ==
    /\ pc \in {"idle", "returned"}
    /\ call.n < MaxCalls
    /\ Begin("WriteTo", services)
    /\ pc' = "assemble" /\ ret' = "none" /\ dest' = dest

\* The loop over the services.
Assemble ==
    /\ pc = "assemble"
    /\ LET g == servicesLoop([swag |-> swag, ops |-> ops], call.services, 1)
       IN  swag' = g.swag /\ ops' = g.ops
    /\ pc' = "marshal"
    /\ UNCHANGED <<rtypes, call, dest, destBefore, swaggerJSON, ret, hist, lastReg, stack, todo>>

\* sg.s.MarshalJSON(): the encoder answers with the bytes or with an error.
Marshal ==
    /\ pc = "marshal"
    /\ \/ /\ swaggerJSON' = MarshalJSON(swag, ops)
          /\ hist' = Append(hist, [services |-> call.services, doc |-> MarshalJSON(swag, ops)])
          /\ pc' = "write"
          /\ ret' = ret
       \/ /\ ret' = "marshal error"
          /\ pc' = "returned"
          /\ UNCHANGED <<swaggerJSON, hist>>
    /\ UNCHANGED <<rtypes, swag, ops, call, dest, destBefore, lastReg, stack, todo>>

\* w.Write(swaggerJSON): all the bytes, or an error after some of them.
Write ==
    /\ pc = "write"
    /\ \/ dest' = Append(dest, swaggerJSON) /\ ret' = "nil"
       \/ dest' \in {dest, Append(dest, [bytes |-> "partial"])} /\ ret' = "write error"
    /\ pc' = "returned"
    /\ UNCHANGED <<rtypes, swag, ops, call, destBefore, swaggerJSON, hist, lastReg, stack, todo>>

Next ==
    \/ \E services \in ServiceLists : WriteToFile(services)
    \/ \E services \in ServiceLists : WriteTo(services)
    \/ Assemble
    \/ Marshal
    \/ Write

Spec == Init /\ [][Next]_vars

Document == MarshalJSON(swag, ops)

(***************************************************************************)
(* SpecOp: one WriteTo on a fresh generator, for one service of one        *)
(* contract drawn from OpContracts.                                        *)
(***************************************************************************)
WriteToOp ==
    /\ pc = "idle"
    /\ dest = <<>>
    /\ \E c \in OpContracts : WriteTo(<<Service("testService", <<c>>)>>)

NextOp == WriteToOp \/ Assemble

SpecOp == Init /\ [][NextOp]_vars

(***************************************************************************)
(* SpecPath: one WriteTo on a fresh generator, for the first contract of   *)
(* swagger_test.go with its selector's path drawn from PathStrings.        *)
(***************************************************************************)
WriteToPath ==
    /\ pc = "idle"
    /\ dest = <<>>
    /\ \E path \in PathStrings : WriteTo(<<pathService(path)>>)

NextPath == WriteToPath \/ Assemble

SpecPath == Init /\ [][NextPath]_vars

(***************************************************************************)
(* SpecDef: addDefinition called directly, any number of times, on the     *)
(* types of RegTypes; the fields of probe are drawn by InitDef.            *)
(***************************************************************************)
BaseKinds ==
    {"bool", "int", "int8", "int16", "int32", "int64", "uint", "uint8", "uint16",
     "uint32", "uint64", "uintptr", "float32", "float64", "complex64", "complex128",
     "array", "chan", "func", "interface", "map", "string", "unsafe.Pointer"}

ProbeTypes ==
    {T(w, k, "") : w \in SeqsUpTo({"ptr", "slice"}, MaxWraps), k \in BaseKinds}
        \cup {T(w, "struct", id) : w \in SeqsUpTo({"ptr", "slice"}, MaxWraps),
                                   id \in {"swagger_test.subRes", "b.Item"}}

ProbeTags ==
    {<<>>, <<"x">>, <<"x", ",", "omitempty">>, <<" ", "x", " ", ",", "omitempty">>,
     <<",", "omitempty">>, <<" ", "x">>}

\* One field of any tag and type, or up to MaxFields fields of a few.
ProbeFields ==
    {<<F(tag, type)>> : tag \in ProbeTags, type \in ProbeTypes}
        \cup SeqsUpTo({F(tag, type) :
                          tag \in {<<"x">>, <<"y", ",", "omitempty">>},
                          type \in {Basic("string"), Slice(Basic("uint8")),
                                    Ptr(subRes), Slice(Ptr(Basic("int32")))}},
                      MaxFields)

RegTypes == {probe, Ptr(probe), itemA, itemB, sampleRes}

InitDef ==
    /\ \E fields \in ProbeFields : rtypes = [Fixture EXCEPT !["probe"].fields = fields]
    /\ swag = NewSwagger("TestTitle", "v0.0.1", "")
    /\ ops = <<>>
    /\ pc = "idle"
    /\ call = NoCall
    /\ dest = <<>>
    /\ destBefore = <<>>
    /\ swaggerJSON = <<>>
    /\ ret = "none"
    /\ hist = <<>>
    /\ lastReg = <<>>
    /\ stack = <<>>
    /\ todo = <<>>

\* sg.addDefinition(swag, rType); lastReg keeps the argument.
Register(rType) ==
    /\ swag' = [swag EXCEPT !.definitions = addDefinition(@, rType)]
    /\ lastReg' = <<rType>>
    /\ UNCHANGED <<rtypes, ops, pc, call, dest, destBefore, swaggerJSON, ret, hist, stack, todo>>

NextDef == \E rType \in RegTypes : Register(rType)

SpecDef == InitDef /\ [][NextDef]_vars

(***************************************************************************)
(* What the claims speak of, stated without the code's operators: the      *)
(* segments of a path, the kinds the parameter classifier supports, the    *)
(* table of element kinds and schemas, the references of a document.       *)
(***************************************************************************)
Range(f) == {f[i] : i \in DOMAIN f}

Max(S) == CHOOSE m \in S : \A n \in S : n <= m

Min(S) == CHOOSE m \in S : \A n \in S : m <= n

Slashes(s) == {i \in 1..Len(s) : s[i] = "/"}

\* The k-th slash-separated segment of s, k = 1 .. Cardinality(Slashes(s)) + 1.
Segment(s, k) ==
    LET cuts == Slashes(s) \cup {0, Len(s) + 1}
        from == CHOOSE i \in cuts : Cardinality({j \in cuts : j < i}) = k - 1
        to == CHOOSE i \in cuts : Cardinality({j \in cuts : j < i}) = k
    IN  SubSeq(s, from + 1, to - 1)

Segments(s) == [k \in 1..(Cardinality(Slashes(s)) + 1) |-> Segment(s, k)]

Brace(seg) ==
    IF Len(seg) > 0 /\ seg[1] = ":" THEN <<"{">> \o Tail(seg) \o <<"}">> ELSE seg

ColonNames(path) ==
    {Tail(seg) : seg \in {x \in Range(Segments(path)) : Len(x) > 0 /\ x[1] = ":"}}

ParameterKinds ==
    {"string", "float32", "float64", "int8", "uint8", "int32", "uint32",
     "int", "int64", "uint", "uint64"}

SupportedParameter(t) ==
    \/ t.wraps = <<>> /\ t.kind \in ParameterKinds
    \/ t.wraps = <<"slice">> /\ t.kind \in ParameterKinds

TaggedFields(t) == {i \in 1..Len(rtypes[t.id].fields) : rtypes[t.id].fields[i].tag # <<>>}

RECURSIVE StripPtrs(_)
StripPtrs(w) == IF w # <<>> /\ Head(w) = "ptr" THEN StripPtrs(Tail(w)) ELSE w

\* One pointer or collection level off, then every chained pointer.
ElementType(t) ==
    [t EXCEPT !.wraps = StripPtrs(IF t.wraps = <<>> THEN <<>> ELSE Tail(t.wraps))]

ElementKind(t) == LET e == ElementType(t) IN IF e.wraps = <<>> THEN e.kind ELSE Head(e.wraps)

IsCollection(t) == t.wraps # <<>> /\ Head(t.wraps) = "slice"

Array(item) ==
    [type |-> "array", format |-> "", ref |-> <<>>, items |-> <<item>>, properties |-> <<>>]

Primitive(tpe, format) ==
    [type |-> tpe, format |-> format, ref |-> <<>>, items |-> <<>>, properties |-> <<>>]

Ref(name) ==
    [type |-> "", format |-> "", ref |-> <<"#/definitions/", name>>, items |-> <<>>,
     properties |-> <<>>]

\* The table of section 4.3 of the specification.
TableSchema(t) ==
    LET k == ElementKind(t)
    IN  IF k = "string" THEN Primitive("string", "")
        ELSE IF k \in {"int8", "uint8"} THEN Array(Primitive("integer", "int8"))
        ELSE IF k \in {"int32", "uint32"} THEN Primitive("integer", "int32")
        ELSE IF k \in {"int", "uint", "int64", "uint64"} THEN Primitive("integer", "int64")
        ELSE IF k = "float32" THEN Primitive("number", "float")
        ELSE IF k = "float64" THEN Primitive("number", "double")
        ELSE IF k = "bool" THEN Primitive("boolean", "")
        ELSE IF k = "struct" THEN Ref(rtypes[t.id].name)
        ELSE IF k = "interface" THEN Primitive("object", "")
        ELSE Primitive("string", "")

WrappedSchema(t) == IF IsCollection(t) THEN Array(TableSchema(t)) ELSE TableSchema(t)

UpToComma(tag) ==
    LET commas == {i \in 1..Len(tag) : tag[i] = ","}
    IN  IF commas = {} THEN tag ELSE SubSeq(tag, 1, Min(commas) - 1)

Trimmed(s) ==
    LET solid == {i \in 1..Len(s) : s[i] # " "}
    IN  IF solid = {} THEN <<>> ELSE SubSeq(s, Min(solid), Max(solid))

\* The tag value up to the first comma, trimmed when there is a comma.
ExposedName(tag) == IF "," \in Range(tag) THEN Trimmed(UpToComma(tag)) ELSE tag

\* The field that decides the property of its name: the last one of that name.
Deciding(t, i) ==
    /\ i \in TaggedFields(t)
    /\ \A j \in TaggedFields(t) :
          ExposedName(rtypes[t.id].fields[j].tag) = ExposedName(rtypes[t.id].fields[i].tag)
              => j <= i

ExpectedDefinition(t) ==
    LET fields == rtypes[t.id].fields
        names == {ExposedName(fields[i].tag) : i \in TaggedFields(t)}
    IN  [type |-> "object", format |-> "", ref |-> <<>>, items |-> <<>>,
         properties |-> [n \in names |->
             WrappedSchema(fields[CHOOSE i \in TaggedFields(t) :
                                     Deciding(t, i) /\ ExposedName(fields[i].tag) = n].type)]]

\* The record types a definition of t refers to, and those below them.
RefTargets(t) ==
    {Struct(rtypes[t.id].fields[i].type.id) :
        i \in {j \in TaggedFields(t) : ElementKind(rtypes[t.id].fields[j].type) = "struct"}}

RECURSIVE RefClosure(_)
RefClosure(t) == {t} \cup UNION {RefClosure(u) : u \in RefTargets(t)}

\* The record types below t through any field, pointer or collection.
NestedTypes(t) ==
    {Struct(rtypes[t.id].fields[i].type.id) :
        i \in {j \in 1..Len(rtypes[t.id].fields) : rtypes[t.id].fields[j].type.kind = "struct"}}

RECURSIVE NestedClosure(_)
NestedClosure(t) == {t} \cup UNION {NestedClosure(u) : u \in NestedTypes(t)}

RECURSIVE SchemaRefs(_)
SchemaRefs(schema) ==
    (IF schema.ref # <<>> THEN {schema.ref} ELSE {})
        \cup UNION {SchemaRefs(schema.items[i]) : i \in DOMAIN schema.items}
        \cup UNION {SchemaRefs(schema.properties[n]) : n \in DOMAIN schema.properties}

Operations(doc) ==
    UNION {{doc.paths[p][m] : m \in DOMAIN doc.paths[p]} : p \in DOMAIN doc.paths}

DocumentRefs(doc) ==
    UNION {{o.responses[c].schema : c \in DOMAIN o.responses} : o \in Operations(doc)}
        \cup UNION {{o.parameters[i].schema :
                        i \in {j \in DOMAIN o.parameters : o.parameters[j].schema # <<>>}} :
                    o \in Operations(doc)}
        \cup UNION {SchemaRefs(doc.definitions[n]) : n \in DOMAIN doc.definitions}

\* The contract of the one service of a SpecOp or SpecPath run.
TheContract == call.services[1].contracts[1]

Assembled == pc = "marshal"

\* The selectors of c that WriteTo registers an operation for.
Routed(c) ==
    {i \in 1..Len(c.selectors) :
        /\ c.selectors[i].rest
        /\ ToUpper(c.selectors[i].method) \in {"GET", "DELETE", "POST", "PUT", "PATCH"}}

\* The operation the document holds for selector sel.
OperationAt(sel) == Document.paths[replacePath(sel.path)][methodField(ToUpper(sel.method))]

Has(op, name, in) ==
    \E i \in DOMAIN op.parameters : op.parameters[i].name = name /\ op.parameters[i].in = in

(***************************************************************************)
(* The claims.                                                             *)
(***************************************************************************)

\* C1: in the operation the document holds for a (contract, selector) pair,
\* every tagged input field of a supported kind whose tag names a
\* colon-prefixed segment of that selector's path is a path parameter and
\* not a query parameter, every other one is a query parameter, and every
\* path or query parameter is required; for any list of selectors.
C1_ParametersFollowTheSelectorsPath ==
    Assembled =>
        \A s \in Routed(TheContract) :
            LET sel == TheContract.selectors[s]
                op == OperationAt(sel)
                inType == Indirect(TheContract.input)
            IN  /\ \A i \in TaggedFields(inType) :
                      LET f == rtypes[inType.id].fields[i]
                      IN  SupportedParameter(f.type) =>
                              IF f.tag \in ColonNames(sel.path)
                              THEN Has(op, f.tag, "path") /\ ~Has(op, f.tag, "query")
                              ELSE Has(op, f.tag, "query")
                /\ \A i \in DOMAIN op.parameters :
                      op.parameters[i].in \in {"path", "query"} => op.parameters[i].required

\* C2: an operation registered under POST, PUT or PATCH has exactly one body
\* parameter, which refers to #/definitions/<input type name>; an operation
\* registered under GET or DELETE has none; for any list of selectors.
C2_BodyParameterOnlyForPostPutPatch ==
    Assembled =>
        \A s \in Routed(TheContract) :
            LET sel == TheContract.selectors[s]
                op == OperationAt(sel)
                body == {i \in DOMAIN op.parameters : op.parameters[i].in = "body"}
            IN  IF ToUpper(sel.method) \in {"POST", "PUT", "PATCH"}
                THEN /\ Cardinality(body) = 1
                     /\ \A i \in body :
                           op.parameters[i].schema =
                               <<"#/definitions/", rtypes[TheContract.input.id].name>>
                ELSE body = {}

ItemsOf(c, code) ==
    LET WithCode(pe) == pe.code = code
        declared == SelectSeq(c.possibleErrors, WithCode)
    IN  [i \in 1..Len(declared) |-> declared[i].item]

RECURSIVE CommaJoined(_)
CommaJoined(items) ==
    IF Len(items) = 0 THEN <<>>
    ELSE IF Len(items) = 1 THEN items[1]
    ELSE items[1] \o <<",", " ">> \o CommaJoined(Tail(items))

\* The response of every declared code lists the items declared with that
\* code, comma-joined, in the order declared.
ErrorResponsesAggregated ==
    Assembled =>
        LET c == TheContract
            op == ops[Len(ops)]
            codes == {c.possibleErrors[i].code : i \in DOMAIN c.possibleErrors}
        IN  /\ DOMAIN op.responses = codes \cup {200}
            /\ \A code \in codes :
                  op.responses[code].description = <<"Items: ">> \o CommaJoined(ItemsOf(c, code))

\* C3: the responses of a contract's operation have one entry per distinct
\* code of its possible errors, each listing the items declared with that
\* code, comma-joined, in the order declared, and the entry of 200 refers to
\* the definition of the output type.
C3_ResponsesAggregatedAnd200IsOutput ==
    /\ ErrorResponsesAggregated
    /\ Assembled =>
          ops[Len(ops)].responses[200].schema =
              <<"#/definitions/", rtypes[TheContract.output.id].name>>

\* C4: a field that is a sequence of 8-bit integers ([]byte, []int8) becomes
\* a property of type array whose items are integer/int8: one level of array.
C4_ByteSequenceIsOneArrayOfInt8 ==
    lastReg # <<>> =>
        LET t == Indirect(lastReg[1])
            fields == rtypes[t.id].fields
        IN  \A i \in TaggedFields(t) :
                (Deciding(t, i) /\ fields[i].type.wraps = <<"slice">>
                                /\ fields[i].type.kind \in {"int8", "uint8"})
                    => swag.definitions[rtypes[t.id].name].properties[ExposedName(fields[i].tag)]
                           = Array(Primitive("integer", "int8"))

\* C5 as amended: for every tagged field of a record type, the property of
\* its name is wrap(dispatch(element kind)) by the table of 4.3, and its name
\* is the tag value up to the first comma, without the white space around it
\* when the tag has a comma.
C5_PropertyIsWrappedTableSchema ==
    lastReg # <<>> =>
        LET t == Indirect(lastReg[1])
            fields == rtypes[t.id].fields
            def == swag.definitions[rtypes[t.id].name]
        IN  /\ DOMAIN def.properties = {ExposedName(fields[i].tag) : i \in TaggedFields(t)}
            /\ \A i \in TaggedFields(t) :
                  Deciding(t, i) =>
                      def.properties[ExposedName(fields[i].tag)] = WrappedSchema(fields[i].type)

\* C5 as claimed: the property name is the tag value up to the first comma.
C5_PropertyNameIsTagUpToComma ==
    lastReg # <<>> =>
        LET t == Indirect(lastReg[1])
            fields == rtypes[t.id].fields
            def == swag.definitions[rtypes[t.id].name]
        IN  DOMAIN def.properties = {UpToComma(fields[i].tag) : i \in TaggedFields(t)}

\* A slice of pointers to a 32-bit integer has become an array of int32.
C5_Witness ==
    /\ lastReg = <<probe>>
    /\ rtypes["probe"].fields = <<F(<<" ", "x", " ", ",", "omitempty">>,
                                   T(<<"slice", "ptr">>, "uint32", ""))>>
    /\ swag.definitions["probe"].properties[<<"x">>] = Array(Primitive("integer", "int32"))

\* The types a contract hands to WriteTo.
ContractTypes(c) ==
    {Indirect(c.input), Indirect(c.output)}
        \cup {Indirect(c.possibleErrors[i].message) : i \in DOMAIN c.possibleErrors}

Resolved(ref) == \E n \in DOMAIN Document.definitions : ref = <<"#/definitions/", n>>

\* C6 as amended: after WriteTo, definitions has an entry for the input, the
\* output and every possible-error type of every contract with an HTTP route
\* selector, and for every record type their definitions refer to (through a
\* tagged field whose type is a record after one pointer or collection level
\* and any further pointers are taken off); every $ref of the document has
\* an entry.
C6_DefinitionsClosedUnderRefs ==
    Assembled =>
        /\ (\E i \in DOMAIN TheContract.selectors : TheContract.selectors[i].rest) =>
              \A t \in ContractTypes(TheContract) : \A u \in RefClosure(t) :
                  rtypes[u.id].name \in DOMAIN Document.definitions
        /\ \A ref \in DocumentRefs(Document) : Resolved(ref)

\* C6 as claimed: every record type below them through fields, pointers and
\* collections has an entry.
C6_EveryNestedTypeDefined ==
    (Assembled /\ \E i \in DOMAIN TheContract.selectors : TheContract.selectors[i].rest) =>
        \A t \in ContractTypes(TheContract) : \A u \in NestedClosure(t) :
            rtypes[u.id].name \in DOMAIN Document.definitions

\* sampleRes is the output of a routed contract; subRes, its field, is defined.
C6_Witness ==
    /\ Assembled
    /\ Routed(TheContract) # {}
    /\ TheContract.output = Ptr(sampleRes)
    /\ "subRes" \in DOMAIN Document.definitions
    /\ <<"#/definitions/", "subRes">> \in DocumentRefs(Document)

\* C7 as amended: definitions holds one entry per type name, and after a
\* registration the entry of the registered type's name is that type's
\* definition, whatever was registered before and also when a field of the
\* type is another type of the same name: the type whose registration ends
\* last is the one stored.
C7_LastCompletedRegistrationWins ==
    /\ \A n \in DOMAIN swag.definitions :
          \E id \in StructIds :
              rtypes[id].name = n /\ swag.definitions[n] = ExpectedDefinition(Struct(id))
    /\ lastReg # <<>> =>
          LET t == Indirect(lastReg[1])
          IN  /\ rtypes[t.id].name \in DOMAIN swag.definitions
              /\ swag.definitions[rtypes[t.id].name] = ExpectedDefinition(t)

\* C7 as claimed: when a type has a field of another type of the same name,
\* the entry is the definition of that second type.
C7_NestedSecondTypeWins ==
    lastReg # <<>> =>
        LET t == Indirect(lastReg[1])
        IN  \A u \in RefTargets(t) :
                (u # t /\ rtypes[u.id].name = rtypes[t.id].name)
                    => swag.definitions[rtypes[t.id].name] = ExpectedDefinition(u)

\* a.Item was registered: its field's type b.Item was stored and overwritten.
C7_Witness ==
    /\ lastReg = <<itemA>>
    /\ swag.definitions["Item"] = ExpectedDefinition(itemA)
    /\ swag.definitions["Item"] # ExpectedDefinition(itemB)

FreshDocument(services) ==
    LET g == servicesLoop([swag |-> NewSwagger("TestTitle", "v0.0.1", ""), ops |-> <<>>],
                          services, 1)
    IN  MarshalJSON(g.swag, g.ops)

\* C8: the document of a call is the one a new generator makes of the same
\* services: equal for equal services, nothing left over from earlier calls.
C8_DocumentDependsOnlyOnServices ==
    \A i \in DOMAIN hist : hist[i].doc = FreshDocument(hist[i].services)

\* C9: until the document is encoded the destination is as it was when the
\* call began, and so it is when the encoding has failed.
C9_DestinationUntouchedBeforeEncoded ==
    /\ pc \in {"assemble", "marshal"} => dest = destBefore
    /\ (pc = "returned" /\ ret = "marshal error") => dest = destBefore

\* C10: the key under which the operation is registered has the segments of
\* the path, in order, each one that starts with ":" in braces without its
\* colon and every other one unchanged.
C10_PathKeyKeepsSegments ==
    Assembled =>
        LET path == TheContract.selectors[1].path
        IN  /\ Cardinality(DOMAIN swag.paths) = 1
            /\ \A key \in DOMAIN swag.paths :
                  /\ "get" \in DOMAIN swag.paths[key]
                  /\ key = replacePath(path)
                  /\ Len(Segments(key)) = Len(Segments(path))
                  /\ \A k \in DOMAIN Segments(path) :
                        Segments(key)[k] = Brace(Segments(path)[k])

\* A path of a leading slash, a parameter and a plain segment was rewritten.
C10_Witness ==
    /\ Assembled
    /\ TheContract.selectors[1].path = <<"/", ":", "x", "/", "b">>
    /\ DOMAIN swag.paths = {<<"/", "{", "x", "}", "/", "b">>}

(***************************************************************************)
(* addDefinition call by call.  The operator addDefinition above is the    *)
(* function a completed call computes; here the calls are frames of a      *)
(* stack, so that types which refer to themselves can be registered too.   *)
(* A frame is [rType, i, def]: the type, the index of the next field and   *)
(* the schema built so far.  MaxDepth stands for the limit the Go runtime  *)
(* puts on a goroutine's stack: a call beyond it is fatal to the process.  *)
(***************************************************************************)
node == Struct("rec.Node")
tree == Struct("rec.Tree")
ping == Struct("rec.Ping")
pong == Struct("rec.Pong")
holder == Struct("rec.Holder")
grid == Struct("rec.Grid")
lazy == Struct("rec.Lazy")
hidden == Struct("rec.Hidden")

RecStructIds ==
    {"rec.Node", "rec.Tree", "rec.Ping", "rec.Pong", "rec.Holder", "rec.Grid",
     "rec.Lazy", "rec.Hidden"}

\* Types that refer to themselves: through a pointer (Node), a collection
\* after a finished nested type (Tree), each other (Ping, Pong), a field of
\* such a type (Holder), a collection of collections (Grid), a pointer to a
\* collection (Lazy), a field without a tag (Hidden).
RecFixture ==
    [id \in StructIds \cup RecStructIds |->
        CASE id \in StructIds -> Fixture[id]
          [] id = "rec.Node" ->
                [name |-> "Node",
                 fields |-> <<F(<<"value">>, Basic("string")), F(<<"next">>, Ptr(node))>>]
          [] id = "rec.Tree" ->
                [name |-> "Tree",
                 fields |-> <<F(<<"sub">>, subRes), F(<<"kids">>, Slice(tree))>>]
          [] id = "rec.Ping" ->
                [name |-> "Ping", fields |-> <<F(<<"pong">>, Ptr(pong))>>]
          [] id = "rec.Pong" ->
                [name |-> "Pong",
                 fields |-> <<F(<<"ping", ",", "omitempty">>, Slice(Ptr(ping)))>>]
          [] id = "rec.Holder" ->
                [name |-> "Holder",
                 fields |-> <<F(<<"id">>, Basic("int64")), F(<<"node">>, node)>>]
          [] id = "rec.Grid" ->
                [name |-> "Grid",
                 fields |-> <<F(<<"cells">>, Slice(Slice(grid))),
                              F(<<"sub">>, Ptr(subRes))>>]
          [] id = "rec.Lazy" ->
                [name |-> "Lazy", fields |-> <<F(<<"next">>, Ptr(Slice(lazy)))>>]
          [] OTHER ->
                [name |-> "Hidden",
                 fields |-> <<F(<<"value">>, Basic("string")), F(<<>>, Ptr(hidden))>>]]

RecTypes == {sampleReq, sampleRes, itemA, node, tree, ping, pong, holder, grid, lazy, hidden}

RecContracts ==
    {Contract("op", Ptr(i), Ptr(o), <<Selector(TRUE, "GET", PathX)>>, errs) :
        i \in RecTypes, o \in RecTypes,
        errs \in {<<>>, <<PossibleError(404, <<"ITEM1">>, Ptr(sampleError))>>}}
    \cup
    {Contract("op", Ptr(sampleReq), Ptr(sampleRes), sels,
              <<PossibleError(404, <<"ITEM1">>, Ptr(e))>>) :
        e \in {sampleError, node, grid},
        sels \in {<<>>, <<Selector(FALSE, "", <<>>)>>, <<Selector(TRUE, "POST", PathX)>>}}

InitRec ==
    /\ rtypes = RecFixture
    /\ swag = NewSwagger("TestTitle", "v0.0.1", "")
    /\ ops = <<>>
    /\ pc = "idle"
    /\ call = NoCall
    /\ dest \in {<<>>, <<OldContent>>}
    /\ destBefore = dest
    /\ swaggerJSON = <<>>
    /\ ret = "none"
    /\ hist = <<>>
    /\ lastReg = <<>>
    /\ stack = <<>>
    /\ todo = <<>>

\* The arguments of the addDefinition calls addOperation makes, in order.
RECURSIVE selectorCalls(_, _)
selectorCalls(c, i) ==
    IF i > Len(c.selectors) THEN <<>>
    ELSE (IF c.selectors[i].rest THEN <<Indirect(c.input), Indirect(c.output)>> ELSE <<>>)
             \o selectorCalls(c, i + 1)

definitionCalls(c) ==
    [i \in 1..Len(c.possibleErrors) |-> Indirect(c.possibleErrors[i].message)]
        \o selectorCalls(c, 1)

\* The entry of addDefinition: the pointer is taken off and def is an object.
newFrame(rType0) ==
    [rType |-> IF Kind(rType0) = "ptr" THEN Elem(rType0) ELSE rType0,
     i |-> 1,
     def |-> ObjectSchema]

\* A guard the code does not have: no call for a type that is being registered.
callDefinitionUnlessRunning(st, fType) ==
    IF \E k \in DOMAIN st : st[k].rType = fType THEN st ELSE Append(st, newFrame(fType))

\* sg.addDefinition(swag, fType) from inside the loop over the fields.
callDefinition(st, fType) == Append(st, newFrame(fType))

\* The field the top call is at, its type where the kind is decided, and
\* whether the field makes the call for a nested record type.
topFrame == stack[Len(stack)]

inLoop == stack # <<>> /\ topFrame.i <= NumField(topFrame.rType)

topField == Field(topFrame.rType, topFrame.i)

topFieldType == switchType(unwrapField(topField.type))

topFieldCalls == topField.tag # <<>> /\ Kind(topFieldType) = "struct"

\* The top frame after the field: the property is set, the index moves on.
afterField ==
    [topFrame EXCEPT
        !.i = @ + 1,
        !.def = IF topField.tag = <<>> THEN @
                ELSE SetProperty(@, propertyName(topField.tag),
                                 wrapFunc(Kind(topField.type), kindProperty(topFieldType)))]

\* One generation run: WriteTo on one service of one contract.
WriteToRec ==
    /\ pc = "idle"
    /\ \E c \in RecContracts : Begin("WriteTo", <<Service("testService", <<c>>)>>)
    /\ pc' = "assemble" /\ ret' = "none" /\ dest' = dest

\* addTag, and addOperation up to its first addDefinition call.
BeginOperation ==
    /\ pc = "assemble"
    /\ swag' = addTag(swag, call.services[1])
    /\ todo' = definitionCalls(call.services[1].contracts[1])
    /\ pc' = "definitions"
    /\ UNCHANGED <<rtypes, ops, call, dest, destBefore, swaggerJSON, ret, hist, lastReg, stack>>

\* addOperation calls addDefinition.
EnterDefinition ==
    /\ pc = "definitions" /\ stack = <<>> /\ todo # <<>>
    /\ stack' = <<newFrame(Head(todo))>>
    /\ todo' = Tail(todo)
    /\ UNCHANGED <<rtypes, swag, ops, pc, call, dest, destBefore, swaggerJSON, ret, hist, lastReg>>

\* One turn of the loop over the fields, the nested call included.
FieldStep ==
    /\ pc = "definitions" /\ inLoop
    /\ topFieldCalls => Len(stack) < MaxDepth
    /\ stack' = LET st == [stack EXCEPT ![Len(stack)] = afterField]
                IN  IF topFieldCalls THEN callDefinition(st, topFieldType) ELSE st
    /\ UNCHANGED <<rtypes, swag, ops, pc, call, dest, destBefore, swaggerJSON, ret, hist,
                   lastReg, todo>>

\* The nested call that finds no room on the stack: the runtime ends the
\* process, and nothing of it runs afterwards.
StackOverflow ==
    /\ pc = "definitions" /\ inLoop
    /\ topFieldCalls /\ Len(stack) >= MaxDepth
    /\ pc' = "fatal"
    /\ UNCHANGED <<rtypes, swag, ops, call, dest, destBefore, swaggerJSON, ret, hist,
                   lastReg, stack, todo>>

\* The loop is over: the definition is stored and the call returns.
ReturnDefinition ==
    /\ pc = "definitions" /\ stack # <<>> /\ ~inLoop
    /\ swag' = [swag EXCEPT
                   !.definitions = storeDefinition(@, Name(topFrame.rType), topFrame.def)]
    /\ stack' = SubSeq(stack, 1, Len(stack) - 1)
    /\ UNCHANGED <<rtypes, ops, pc, call, dest, destBefore, swaggerJSON, ret, hist,
                   lastReg, todo>>

\* The rest of addOperation: the operation and its path items.
FinishOperation ==
    /\ pc = "definitions" /\ stack = <<>> /\ todo = <<>>
    /\ LET g == addOperation([swag |-> swag, ops |-> ops], call.services[1].name,
                             call.services[1].contracts[1])
       IN  /\ swag' = [swag EXCEPT !.paths = g.swag.paths]
           /\ ops' = g.ops
    /\ pc' = "marshal"
    /\ UNCHANGED <<rtypes, call, dest, destBefore, swaggerJSON, ret, hist, lastReg,
                   stack, todo>>

NextRec ==
    \/ WriteToRec
    \/ BeginOperation
    \/ EnterDefinition
    \/ FieldStep
    \/ StackOverflow
    \/ ReturnDefinition
    \/ FinishOperation
    \/ Marshal
    \/ Write

SpecRec == InitRec /\ [][NextRec]_vars

(***************************************************************************)
(* Record types that refer to themselves.                                  *)
(***************************************************************************)
\* The record types of the tagged fields of t, under any pointers and
\* collections.
TaggedNestedTypes(t) ==
    {Struct(rtypes[t.id].fields[i].type.id) :
        i \in {j \in TaggedFields(t) : rtypes[t.id].fields[j].type.kind = "struct"}}

RECURSIVE Grow(_, _)
Grow(S, followed) ==
    LET more == S \cup UNION {IF followed THEN RefTargets(u) ELSE TaggedNestedTypes(u) : u \in S}
    IN  IF more = S THEN S ELSE Grow(more, followed)

\* The types one or more fields below t: through the fields addDefinition
\* makes a call for (followed), or through every tagged field.
Below(t, followed) ==
    Grow(IF followed THEN RefTargets(t) ELSE TaggedNestedTypes(t), followed)

\* t is one of a type that refers to itself or of a pair that refer to each
\* other.
SelfReferential(t, followed) == t \in Below(t, followed)

\* The graph of the types nested in t has a cycle.
Cyclic(t, followed) ==
    \E u \in {t} \cup Below(t, followed) : SelfReferential(u, followed)

AllStructs == {Struct(id) : id \in DOMAIN rtypes}

Running == call.n > 0 /\ pc # "assemble"

ArgumentTypes == Range(definitionCalls(TheContract))

Completed == pc \in {"marshal", "write", "returned"}

\* What holds in every state of a run, as amended: a type with a cycle
\* through the fields addDefinition follows has no definition, a run with
\* such an argument does not get to the encoder and leaves the destination
\* as it was, a run without one does not overflow the stack, and then the
\* definitions are those of the function addDefinition.
NoDefinitionOfACycle ==
    /\ \A t \in AllStructs : Cyclic(t, TRUE) => Name(t) \notin DOMAIN swag.definitions
    /\ (Running /\ \E t \in ArgumentTypes : Cyclic(t, TRUE)) =>
          /\ ~Completed
          /\ dest = destBefore
          /\ swaggerJSON = <<>>
    /\ (Running /\ \A t \in ArgumentTypes : ~Cyclic(t, TRUE)) =>
          /\ pc # "fatal"
          /\ Completed =>
                swag = servicesLoop([swag |-> NewSwagger("TestTitle", "v0.0.1", ""),
                                     ops |-> <<>>], call.services, 1).swag

\* The steps a call of addDefinition has left from field i of t on: one a
\* field, one to store and return, and those of the calls its fields make.
RECURSIVE StepsFrom(_, _)
StepsFrom(t, i) ==
    IF i > Len(rtypes[t.id].fields) THEN 1
    ELSE LET fType == rtypes[t.id].fields[i].type
         IN  1 + (IF i \in TaggedFields(t) /\ ElementKind(fType) = "struct"
                  THEN StepsFrom(Struct(fType.id), 1) ELSE 0)
               + StepsFrom(t, i + 1)

RECURSIVE Sum(_)
Sum(ns) == IF ns = <<>> THEN 0 ELSE Head(ns) + Sum(Tail(ns))

\* The steps addOperation has left before the encoder.
StepsLeft ==
    IF pc # "definitions" THEN 0
    ELSE 1 + Sum([k \in DOMAIN stack |-> StepsFrom(stack[k].rType, stack[k].i)])
           + Sum([k \in DOMAIN todo |-> 1 + StepsFrom(todo[k], 1)])

\* With no cycle below its arguments every step of addOperation leaves one
\* step less to take, and the last one is the step to the encoder.
EveryStepIsOneLess ==
    (pc = "definitions" /\ \A t \in ArgumentTypes : ~Cyclic(t, TRUE)) =>
        /\ pc' \in {"definitions", "marshal"}
        /\ StepsLeft' = StepsLeft - 1

\* C11 as amended: when no argument of addDefinition has a cycle through
\* the fields it follows (tagged, a record after one pointer or one
\* collection level and every further pointer are taken off), the calls
\* return after a number of steps the types fix and WriteTo gets to its
\* encoder; when one has, the recursion does not complete, no definition of
\* a type with such a cycle is ever stored and nothing is written.
C11_FollowedCyclesNeverComplete ==
    /\ []NoDefinitionOfACycle
    /\ [][EveryStepIsOneLess]_vars

\* C11 as stated: no definition is ever stored for a type that refers to
\* itself, or to a type that refers back to it, through tagged fields.
C11_NoDefinitionOfASelfReferentialType ==
    \A t \in AllStructs : SelfReferential(t, FALSE) => Name(t) \notin DOMAIN swag.definitions

\* The stack is exhausted under a Tree: the nested subRes has its
\* definition, Tree has none, and the destination is as it was.
C11_Witness ==
    /\ pc = "fatal"
    /\ TheContract.output = Ptr(tree)
    /\ Len(stack) = MaxDepth
    /\ \A k \in DOMAIN stack : stack[k].rType = tree
    /\ "subRes" \in DOMAIN swag.definitions
    /\ "Tree" \notin DOMAIN swag.definitions
    /\ dest = destBefore

====
